---- MODULE Spec2Model ----
(***************************************************************************)
(* The discrete strided-interval set (DSIS) of claripy's VSA domain,       *)
(* claripy/vsa/discrete_strided_interval_set.py.                           *)
(*                                                                         *)
(* Values are records of one shape, [kind, bits, stride, lb, ub, elems]:   *)
(*   kind = "si"    a StridedInterval, stride[lb, ub] over `bits` bits;    *)
(*                  the empty interval has lb = ub = None;                 *)
(*   kind = "dsis"  a DiscreteStridedIntervalSet: elems is _si_set, lb and *)
(*                  ub are the cached _lower_bound and _upper_bound;       *)
(*   kind = "int"   a Python integer (lb holds it): an operand that is no  *)
(*                  StridedInterval;                                       *)
(*   kind = "error" a raised ClaripyVSAOperationError;                     *)
(*   kind = "bool"  a BoolResult (lb: 1 true, 0 false, 2 maybe).           *)
(* DiscreteStridedIntervalSet subclasses StridedInterval (line 47), so a   *)
(* DSIS passes every isinstance(x, StridedInterval) test.                  *)
(***************************************************************************)
EXTENDS Integers, FiniteSets, Sequences, TLC

\* Python's None, as held by the bounds of a value without bounds.
None == -1

\* MAX_NUMBER_OF_SI: "We don't collapse until there are more than this many SIs".
MAX_NUMBER_OF_SI == 256

\* The number of operations the caller performs in one run.
MaxSteps == 2

(***************************************************************************)
(* The interval primitive, claripy/vsa/strided_interval.py.  The file is   *)
(* not part of the source tree at hand; its operations are modelled from   *)
(* the contract the specification gives: non-wrapping strided intervals,   *)
(* each operation exact on single values and otherwise an interval holding *)
(* every concrete result.                                                  *)
(***************************************************************************)

Pow2(n) == 2 ^ n

Min(S) == CHOOSE x \in S : \A y \in S : x <= y

Max(S) == 0 - Min({0 - x : x \in S})

RECURSIVE GCD(_, _)
GCD(a, b) == IF b = 0 THEN a ELSE GCD(b, a % b)

\* The greatest common divisor of a set of naturals, by halving the set.
RECURSIVE GCDSet(_)
GCDSet(S) ==
    IF S = {} THEN 0
    ELSE IF Cardinality(S) = 1 THEN CHOOSE x \in S : TRUE
    ELSE LET mid == (Min(S) + Max(S)) \div 2
         IN GCD(GCDSet({x \in S : x <= mid}), GCDSet({x \in S : x > mid}))

\* StridedInterval(bits, stride, lower_bound, upper_bound)
SI(bits, stride, lb, ub) ==
    [kind |-> "si", bits |-> bits, stride |-> stride, lb |-> lb, ub |-> ub,
     elems |-> {}]

\* StridedInterval.empty(bits)
Empty(bits) == SI(bits, 0, None, None)

\* StridedInterval.top(bits)
Top(bits) == SI(bits, 1, 0, Pow2(bits) - 1)

\* The interval stride[lb, ub] in its one form: stride 0 for a single value,
\* and a stride that divides ub - lb otherwise.
Norm(bits, stride, lb, ub) ==
    IF lb = ub THEN SI(bits, 0, lb, lb) ELSE SI(bits, GCD(stride, ub - lb), lb, ub)

\* A Python integer.
PyInt(n) ==
    [kind |-> "int", bits |-> 0, stride |-> 0, lb |-> n, ub |-> n, elems |-> {}]

\* A raised ClaripyVSAOperationError.
Error ==
    [kind |-> "error", bits |-> 0, stride |-> 0, lb |-> None, ub |-> None,
     elems |-> {}]

\* BoolResult: 1 is TrueResult, 0 is FalseResult, 2 is MaybeResult.
Bool(t) ==
    [kind |-> "bool", bits |-> 0, stride |-> 0, lb |-> t, ub |-> t, elems |-> {}]

\* StridedInterval.is_empty
SIIsEmpty(a) == a.lb = None \/ a.ub = None

IsSingle(a) == ~SIIsEmpty(a) /\ a.lb = a.ub

\* StridedInterval.cardinality
SICard(a) ==
    IF SIIsEmpty(a) THEN 0
    ELSE IF a.stride = 0 \/ a.lb >= a.ub THEN 1
    ELSE ((a.ub - a.lb) \div a.stride) + 1

\* The concrete values of an interval read through the fields every
\* StridedInterval instance has: bits, stride and the two bounds.
GammaSI(s) ==
    IF SIIsEmpty(s) THEN {}
    ELSE IF s.stride = 0 \/ s.lb >= s.ub THEN {s.lb}
    ELSE {s.lb + k * s.stride : k \in 0 .. ((s.ub - s.lb) \div s.stride)}

\* Whether the interval holds the concrete value x.
InSI(x, s) ==
    /\ ~SIIsEmpty(s)
    /\ s.lb <= x
    /\ x <= s.ub
    /\ IF s.stride = 0 \/ s.lb >= s.ub THEN x = s.lb ELSE (x - s.lb) % s.stride = 0

\* The tightest strided interval of `bits` bits holding the values S.
Alpha(S, bits) ==
    IF S = {} THEN Empty(bits)
    ELSE LET lo == Min(S)
             hi == Max(S)
         IN SI(bits, GCDSet({x - lo : x \in S}), lo, hi)

\* What the primitive's code reads of an operand: a DSIS is a StridedInterval
\* whose interval fields are its bit-width and its cached bounds.
AsSI(v) ==
    IF v.kind = "dsis"
    THEN (IF v.lb = None \/ v.ub = None THEN Empty(v.bits)
          ELSE Norm(v.bits, 1, v.lb, v.ub))
    ELSE v

RECURSIVE BitOp(_, _, _, _)
BitOp(f, x, y, n) ==
    IF n = 0 THEN 0
    ELSE LET a == x % 2
             b == y % 2
             r == CASE f = "__and__" -> a * b
                    [] f = "__or__" -> (a + b) - (a * b)
                    [] OTHER -> (a + b) % 2
         IN r + 2 * BitOp(f, x \div 2, y \div 2, n - 1)

\* One concrete evaluation of a binary operator: x of w bits, y of wy bits.
Concrete(f, x, y, w, wy) ==
    CASE f = "__add__" -> (x + y) % Pow2(w)
      [] f = "__sub__" -> (x + Pow2(w) - (y % Pow2(w))) % Pow2(w)
      [] f \in {"__and__", "__or__", "__xor__"} -> BitOp(f, x, y, w)
      [] f = "__lshift__" -> IF y >= w THEN 0 ELSE (x % Pow2(w - y)) * Pow2(y)
      [] f = "__rshift__" -> IF y >= w THEN 0 ELSE x \div Pow2(y)
      [] f = "concat" -> x * Pow2(wy) + y

\* StridedInterval.widen: the bound the operand exceeds goes to its extreme.
SIWiden(a, b) ==
    IF SIIsEmpty(b) THEN a
    ELSE IF SIIsEmpty(a) THEN b
    ELSE LET lo == IF b.lb < a.lb THEN 0 ELSE a.lb
             hi == IF b.ub > a.ub THEN Pow2(a.bits) - 1 ELSE a.ub
             st == GCDSet({a.stride, b.stride, a.lb - lo, b.lb - lo})
         IN Norm(a.bits, st, lo, hi)

\* The binary operators of StridedInterval on two intervals that are not
\* both single values.
SIRange(f, a, b) ==
    LET w == a.bits
        st == GCD(a.stride, b.stride)
    IN CASE f = "__add__" ->
              IF a.ub + b.ub < Pow2(w) THEN Norm(w, st, a.lb + b.lb, a.ub + b.ub)
              ELSE Top(w)
         [] f = "__sub__" ->
              IF a.lb >= b.ub THEN Norm(w, st, a.lb - b.ub, a.ub - b.lb) ELSE Top(w)
         [] f = "__and__" -> Norm(w, 1, 0, Min({a.ub, b.ub}))
         [] f = "__or__" -> Norm(w, 1, Max({a.lb, b.lb}), Pow2(w) - 1)
         [] f = "__xor__" -> Top(w)
         [] f = "__lshift__" ->
              IF IsSingle(b) /\ b.lb < w /\ a.ub < Pow2(w - b.lb)
              THEN Norm(w, a.stride * Pow2(b.lb), a.lb * Pow2(b.lb), a.ub * Pow2(b.lb))
              ELSE Top(w)
         [] f = "__rshift__" ->
              IF IsSingle(b)
              THEN (IF b.lb >= w THEN SI(w, 0, 0, 0)
                    ELSE Norm(w, 1, a.lb \div Pow2(b.lb), a.ub \div Pow2(b.lb)))
              ELSE Norm(w, 1, 0, a.ub)
         [] f = "concat" ->
              Norm(w + b.bits, GCD(a.stride * Pow2(b.bits), b.stride),
                   a.lb * Pow2(b.bits) + b.lb, a.ub * Pow2(b.bits) + b.ub)

\* The binary operators of StridedInterval, on two intervals.
SIBinary(f, a, b) ==
    LET bits == IF f = "concat" THEN a.bits + b.bits ELSE a.bits
    IN IF f = "widen" THEN SIWiden(a, b)
       ELSE IF SIIsEmpty(a) \/ SIIsEmpty(b) THEN Empty(bits)
       ELSE IF IsSingle(a) /\ IsSingle(b)
       THEN LET v == Concrete(f, a.lb, b.lb, a.bits, b.bits) IN SI(bits, 0, v, v)
       ELSE SIRange(f, a, b)

\* StridedInterval.__invert__
SIInvert(a) ==
    IF SIIsEmpty(a) THEN a
    ELSE SI(a.bits, a.stride, Pow2(a.bits) - 1 - a.ub, Pow2(a.bits) - 1 - a.lb)

\* StridedInterval.extract(high_bit, low_bit)
SIExtract(a, high_bit, low_bit) ==
    LET bits == high_bit - low_bit + 1
        lo == a.lb \div Pow2(low_bit)
        hi == a.ub \div Pow2(low_bit)
    IN IF SIIsEmpty(a) THEN Empty(bits)
       ELSE IF IsSingle(a) THEN SI(bits, 0, lo % Pow2(bits), lo % Pow2(bits))
       ELSE IF hi < Pow2(bits)
       THEN Norm(bits, (IF low_bit = 0 THEN a.stride ELSE 1), lo, hi)
       ELSE Top(bits)

\* StridedInterval.zero_extend(new_length)
SIZeroExtend(a, new_length) == [a EXCEPT !.bits = new_length]

\* StridedInterval.sign_extend(new_length)
SISignExtend(a, new_length) ==
    LET up == Pow2(new_length) - Pow2(a.bits)
        half == Pow2(a.bits - 1)
    IN IF SIIsEmpty(a) THEN Empty(new_length)
       ELSE IF a.ub < half THEN [a EXCEPT !.bits = new_length]
       ELSE IF a.lb >= half
       THEN [a EXCEPT !.bits = new_length, !.lb = a.lb + up, !.ub = a.ub + up]
       ELSE Norm(new_length, 1, a.lb, a.ub + up)

\* StridedInterval._union / StridedInterval.union: the interval of both.
SIUnion(a, b) ==
    IF SIIsEmpty(b) THEN a
    ELSE IF SIIsEmpty(a) THEN b
    ELSE LET lo == Min({a.lb, b.lb})
         IN Norm(a.bits, GCDSet({a.stride, b.stride, a.lb - lo, b.lb - lo}),
                 lo, Max({a.ub, b.ub}))

\* The values two intervals share.
Shared(a, b) ==
    IF SICard(a) <= SICard(b) THEN {x \in GammaSI(a) : InSI(x, b)}
    ELSE {x \in GammaSI(b) : InSI(x, a)}

\* StridedInterval.intersection
SIIntersection(a, b) == Alpha(Shared(a, b), a.bits)

\* StridedInterval.__eq__: definitely true for one and the same single value,
\* definitely false for disjoint intervals, maybe otherwise.
SIEq(a, b) ==
    IF IsSingle(a) /\ IsSingle(b) /\ a.lb = b.lb THEN Bool(1)
    ELSE IF Shared(a, b) = {} THEN Bool(0)
    ELSE Bool(2)

\* BoolResult.is_true
is_true(r) == r.kind = "bool" /\ r.lb = 1

(***************************************************************************)
(* DiscreteStridedIntervalSet                                              *)
(***************************************************************************)

\* isinstance(v, StridedInterval): true of a DSIS too, a subclass (line 47).
IsStridedInterval(v) == v.kind \in {"si", "dsis"}

\* isinstance(v, DiscreteStridedIntervalSet)
IsDSIS(v) == v.kind = "dsis"

\* _update_bounds without lines 481-482: the upper bound is set once and never
\* raised.  C5 tells it from _update_bounds.
_update_bounds_upper_once(d, val) ==
    IF ~IsStridedInterval(val) THEN Error
    ELSE LET lo == IF val.lb # None
                   THEN (IF d.lb = None THEN val.lb
                         ELSE IF val.lb < d.lb THEN val.lb ELSE d.lb)
                   ELSE d.lb
             hi == IF val.ub # None /\ d.ub = None THEN val.ub ELSE d.ub
         IN [d EXCEPT !.lb = lo, !.ub = hi]

\* _update_bounds without the isinstance test of line 469.  C8 tells it from
\* _update_bounds.
_update_bounds_unchecked(d, val) ==
    [d EXCEPT !.lb = IF d.lb = None \/ val.lb < d.lb THEN val.lb ELSE d.lb,
              !.ub = IF d.ub = None \/ val.ub > d.ub THEN val.ub ELSE d.ub]

\* _update_bounds(val), as the receiver it leaves (Error when it raises).
_update_bounds(d, val) ==
    IF ~IsStridedInterval(val) THEN Error
    ELSE LET lo == IF val.lb # None
                   THEN (IF d.lb = None THEN val.lb
                         ELSE IF val.lb < d.lb THEN val.lb ELSE d.lb)
                   ELSE d.lb
             hi == IF val.ub # None
                   THEN (IF d.ub = None THEN val.ub
                         ELSE IF val.ub > d.ub THEN val.ub ELSE d.ub)
                   ELSE d.ub
         IN [d EXCEPT !.lb = lo, !.ub = hi]

\* The field among lb, ub, stride in which the values of S differ ("" when
\* in none): a loop over S is unfolded by halving S on that field.
Varying(S) ==
    IF Cardinality({x.lb : x \in S}) > 1 THEN "lb"
    ELSE IF Cardinality({x.ub : x \in S}) > 1 THEN "ub"
    ELSE IF Cardinality({x.stride : x \in S}) > 1 THEN "stride"
    ELSE ""

\* The lower half of S on field k.
LowerHalf(S, k) ==
    LET mid == (Min({x[k] : x \in S}) + Max({x[k] : x \in S})) \div 2
    IN {x \in S : x[k] <= mid}

\* The loop of __init__, for si in self._si_set: self._update_bounds(si), on
\* the fresh object d.  _update_bounds keeps the least lower and the greatest
\* upper bound it is given, so the loop over S is the loop over one half
\* updated by the bounds of the loop over the other; elements of equal bounds
\* update the bounds alike, and one of them is applied.
RECURSIVE UpdateBoundsEach(_, _)
UpdateBoundsEach(d, S) ==
    IF S = {} THEN d
    ELSE IF \E si \in S : ~IsStridedInterval(si) THEN Error
    ELSE IF Varying(S) \in {"", "stride"} THEN _update_bounds(d, CHOOSE si \in S : TRUE)
    ELSE LET low == LowerHalf(S, Varying(S))
         IN _update_bounds(UpdateBoundsEach(d, low), UpdateBoundsEach(d, S \ low))

\* DiscreteStridedIntervalSet(bits=bits, si_set=si_set)
DSIS(bits, si_set) ==
    UpdateBoundsEach([kind |-> "dsis", bits |-> bits, stride |-> 0,
                      lb |-> None, ub |-> None, elems |-> si_set], si_set)

\* The sum of c * (the number of elements of cardinality c) over c in cs,
\* by halving cs.
RECURSIVE SumCards(_, _)
SumCards(cs, count) ==
    IF cs = {} THEN 0
    ELSE IF Cardinality(cs) = 1 THEN LET c == CHOOSE x \in cs : TRUE IN c * count[c]
    ELSE LET mid == (Min(cs) + Max(cs)) \div 2
         IN SumCards({c \in cs : c <= mid}, count) + SumCards({c \in cs : c > mid}, count)

\* cardinality: the sum of the elements' cardinalities.
RECURSIVE cardinality(_)
cardinality(v) ==
    IF v.kind = "dsis"
    THEN LET card == [si \in v.elems |-> cardinality(si)]
             cs == {card[si] : si \in v.elems}
         IN SumCards(cs, [c \in cs |-> Cardinality({si \in v.elems : card[si] = c})])
    ELSE SICard(v)

number_of_values(d) == Cardinality(d.elems)

should_collapse(d) == number_of_values(d) > MAX_NUMBER_OF_SI

\* The loop of collapse, r = r._union(si) if r is not None else si, over the
\* elements S: the primitive's union is associative and commutative, so the
\* loop over S is the union of the loops over its halves; intervals of equal
\* bounds and stride are one operand.
RECURSIVE CollapseFold(_)
CollapseFold(S) ==
    IF Cardinality(S) = 1 THEN CHOOSE si \in S : TRUE
    ELSE LET seen == {AsSI(si) : si \in S}
             k == Varying(seen)
             half == LowerHalf(seen, k)
             low == {si \in S : AsSI(si) \in half}
         IN IF k = "" THEN AsSI(CHOOSE si \in S : TRUE)
            ELSE SIUnion(AsSI(CollapseFold(low)), AsSI(CollapseFold(S \ low)))

collapse(d) ==
    IF cardinality(d) # 0 THEN CollapseFold(d.elems) ELSE Empty(d.bits)

\* normalize without the should_collapse branch.  C1 tells it from normalize.
normalize_without_collapse(d) ==
    IF number_of_values(d) = 1 THEN CHOOSE x \in d.elems : TRUE ELSE d

normalize(d) ==
    IF should_collapse(d) THEN collapse(d)
    ELSE IF number_of_values(d) = 1 THEN CHOOSE x \in d.elems : TRUE
    ELSE d

copy(d) == DSIS(d.bits, d.elems)

\* The operand of a collapse_operand method.
collapse_operand(o) == IF IsDSIS(o) THEN collapse(o) ELSE o

\* a == b as Python evaluates it: DiscreteStridedIntervalSet.__eq__ collapses
\* both sides and compares the intervals; it is the method chosen whenever one
\* side is a DSIS (a subclass overriding __eq__ has priority as right operand).
PyEq(a, b) == SIEq(AsSI(collapse_operand(a)), AsSI(collapse_operand(b)))

Lifted ==
    {"__and__", "__or__", "__xor__", "__lshift__", "__rshift__", "concat",
     "__add__", "__sub__", "sign_extend", "zero_extend", "widen"}

\* The binary operators lifted by apply_on_each_si that take an interval or
\* a DSIS as their operand.
LiftedBinary ==
    {"__and__", "__or__", "__xor__", "__lshift__", "__rshift__", "__add__",
     "__sub__", "concat", "widen"}

RECURSIVE Call(_, _, _)
RECURSIVE apply_on_each_si(_, _, _)

\* getattr(a, f)(b)
Call(f, a, b) ==
    IF a.kind = "dsis"
    THEN (IF f = "widen" THEN apply_on_each_si(f, a, collapse_operand(b))
          ELSE apply_on_each_si(f, a, b))
    ELSE CASE f = "sign_extend" -> SISignExtend(a, b.lb)
           [] f = "zero_extend" -> SIZeroExtend(a, b.lb)
           [] OTHER -> SIBinary(f, a, AsSI(b))

apply_on_each_si(f, d, o) ==
    IF IsDSIS(o)
    THEN normalize(DSIS(d.bits, {Call(f, a, b) : <<a, b>> \in d.elems \X o.elems}))
    ELSE IF IsStridedInterval(o)
    THEN normalize(DSIS(d.bits, {Call(f, si, o) : si \in d.elems}))
    ELSE Error

\* widen: collapse_operand around apply_on_each_si
widen(d, b) == Call("widen", d, b)

RECURSIVE __neg__(_)
__neg__(d) ==
    normalize(DSIS(d.bits,
                   {IF si.kind = "dsis" THEN __neg__(si) ELSE SIInvert(si) :
                      si \in d.elems}))

\* list(ret)[0] of an empty list raises IndexError.
IndexError ==
    [kind |-> "index_error", bits |-> 0, stride |-> 0, lb |-> None, ub |-> None,
     elems |-> {}]

RECURSIVE extract(_, _, _)
extract(d, high_bit, low_bit) ==
    LET ret == {IF si.kind = "dsis" THEN extract(si, high_bit, low_bit)
                ELSE SIExtract(si, high_bit, low_bit) : si \in d.elems}
        bits == high_bit - low_bit + 1
    IN IF Cardinality(ret) > 1 THEN DSIS(bits, ret)
       ELSE IF ret = {} THEN IndexError
       ELSE CHOOSE x \in ret : TRUE

\* _union_with_si without the _update_bounds(si) of line 399.  C10 tells it
\* from _union_with_si.
_union_with_si_stale_bounds(d, si) ==
    LET dsis == copy(d)
    IN IF \E si_ \in dsis.elems : is_true(PyEq(si_, si)) THEN dsis
       ELSE normalize([dsis EXCEPT !.elems = dsis.elems \cup {si}])

\* _union_with_si(si)
_union_with_si(d, si) ==
    LET dsis == copy(d)
    IN IF \E si_ \in dsis.elems : is_true(PyEq(si_, si)) THEN dsis
       ELSE normalize(_update_bounds([dsis EXCEPT !.elems = dsis.elems \cup {si}], si))

\* _union_with_dsis(dsis): the value of each copied.union(a) is dropped.
_union_with_dsis(d, dsis) ==
    LET copied == copy(d)
    IN normalize(_update_bounds(copied, dsis))

union(d, b) ==
    IF IsStridedInterval(b) THEN _union_with_si(d, b)
    ELSE IF IsDSIS(b) THEN _union_with_dsis(d, b)
    ELSE Error

RECURSIVE intersection(_, _)
RECURSIVE _intersection_with_si(_, _)

_intersection_with_si(d, si) ==
    LET new_si_set ==
            {r \in {IF si_.kind = "dsis" THEN intersection(si_, si)
                    ELSE SIIntersection(si_, AsSI(si)) : si_ \in d.elems} :
               ~SIIsEmpty(AsSI(r))}
    IN IF new_si_set # {}
       THEN LET ret == DSIS(d.bits, new_si_set)
            IN IF should_collapse(ret) THEN collapse(ret) ELSE ret
       ELSE Empty(d.bits)

\* The pieces _intersection_with_dsis gathers over the operand's elements.
RECURSIVE IntersectionPieces(_, _)
IntersectionPieces(d, S) ==
    IF S = {} THEN {}
    ELSE LET si == CHOOSE x \in S : TRUE
             r == _intersection_with_si(d, si)
             rest == IntersectionPieces(d, S \ {si})
         IN IF IsStridedInterval(r)
            THEN (IF ~SIIsEmpty(AsSI(r)) THEN rest \cup {r} ELSE rest)
            ELSE rest \cup r.elems

_intersection_with_dsis(d, dsis) ==
    LET new_si_set == IntersectionPieces(d, dsis.elems)
    IN IF new_si_set # {} THEN normalize(DSIS(d.bits, new_si_set))
       ELSE Empty(d.bits)

intersection(d, b) ==
    IF IsStridedInterval(b) THEN _intersection_with_si(d, b)
    ELSE IF IsDSIS(b) THEN _intersection_with_dsis(d, b)
    ELSE Error

\* sign_extend(new_length), zero_extend(new_length): apply_on_each_si methods.
sign_extend(d, new_length) == apply_on_each_si("sign_extend", d, new_length)

zero_extend(d, new_length) == apply_on_each_si("zero_extend", d, new_length)

\* The reflected operators, called for `o op self`: each returns what the
\* operator itself returns for `self op o`.
__rand__(d, o) == apply_on_each_si("__and__", d, o)

__ror__(d, o) == apply_on_each_si("__or__", d, o)

__rxor__(d, o) == apply_on_each_si("__xor__", d, o)

__radd__(d, o) == apply_on_each_si("__add__", d, o)

__rsub__(d, o) == apply_on_each_si("__sub__", d, o)

(***************************************************************************)
(* The caller: it holds a receiver `self` and a second value `other`, and  *)
(* calls one public operation after the other on the receiver, going on    *)
(* with the result whenever the result is a DSIS.                          *)
(***************************************************************************)

VARIABLES
    self,    \* the DSIS the caller holds and calls methods on
    other,   \* a second value the caller holds and passes as an operand
    op,      \* the last method called
    recv,    \* its receiver as it was before the call
    arg,     \* its operand
    ret,     \* what it returned, or the error it raised
    hist,    \* "unions" while every call so far was a union
    steps,   \* the number of calls made
    heap,    \* the DSIS objects and the Python sets allocated: [objs, sets]
    snap,    \* for each DSIS object, what it held when the caller got it
    cop,     \* the last method called on a DSIS object
    calls    \* the number of calls made on DSIS objects

vars == <<self, other, op, recv, arg, ret, hist, steps, heap, snap, cop, calls>>

valueVars == <<self, other, op, recv, arg, ret, hist, steps>>

heapVars == <<heap, snap, cop, calls>>

Singleton(n) == SI(8, 0, n, n)

Range(lo, hi) == SI(8, 1, lo, hi)

\* {3, 5} and {5, 9} as singleton intervals, 8 bits.
Set35 == DSIS(8, {Singleton(3), Singleton(5)})

Set59 == DSIS(8, {Singleton(5), Singleton(9)})

\* {[0,10], [20,30]}
SetRanges == DSIS(8, {Range(0, 10), Range(20, 30)})

\* Sixteen multiples of sixteen.
SetSixteens == DSIS(8, {Singleton(16 * i) : i \in 0 .. 15})

\* Sixteen singletons and one interval: seventeen elements.
SetSeventeen == DSIS(8, {Singleton(j) : j \in 0 .. 15} \cup {Range(0, 1)})

\* Every single value of 8 bits: MAX_NUMBER_OF_SI elements.
SetFull == DSIS(8, {Singleton(j) : j \in 0 .. 255})

\* The pairs (self, other) the caller starts with.
Held ==
    {<<Set35, Set59>>, <<SetRanges, Set59>>, <<SetSixteens, SetSeventeen>>,
     <<SetFull, Set59>>}

\* The operands a call is given: two intervals, the other held value, and an
\* integer, which is no interval.
Operands == {Singleton(5), Range(1, 3), other, PyInt(16)}

\* The (high_bit, low_bit) pairs extract is called with.
ExtractArgs == {<<7, 0>>, <<3, 0>>, <<7, 4>>}

BitsArg(high_bit, low_bit) ==
    [kind |-> "bits", bits |-> 0, stride |-> 0, lb |-> low_bit, ub |-> high_bit,
     elems |-> {}]

NoArg ==
    [kind |-> "none", bits |-> 0, stride |-> 0, lb |-> None, ub |-> None,
     elems |-> {}]

(***************************************************************************)
(* Objects.  A DSIS object has its bit-width, its cached bounds and a      *)
(* reference to a Python set; two objects may refer to one set.            *)
(***************************************************************************)

\* The DSIS value object i is, read through its fields.
View(h, i) ==
    [kind |-> "dsis", bits |-> h.objs[i].bits, stride |-> 0, lb |-> h.objs[i].lb,
     ub |-> h.objs[i].ub, elems |-> h.sets[h.objs[i].set]]

\* A new Python set holding S; its reference is Len(sets).
NewSet(h, S) == [h EXCEPT !.sets = Append(h.sets, S)]

\* DiscreteStridedIntervalSet(bits=bits, si_set=sets[sid]) as a new object:
\* __init__ keeps the very set it is given, unless that is empty.
init_obj(h, bits, sid) ==
    LET h1 == IF h.sets[sid] # {} THEN h ELSE NewSet(h, {})
        own == IF h.sets[sid] # {} THEN sid ELSE Len(h1.sets)
        d == DSIS(bits, h.sets[sid])
    IN [h1 EXCEPT !.objs = Append(h1.objs, [bits |-> bits, lb |-> d.lb, ub |-> d.ub,
                                             set |-> own])]

\* copy() without the .copy() of line 128: the new object refers to the set of
\* the object copied.  C7 tells it from copy_obj.
copy_obj_shared(h, i) == init_obj(h, h.objs[i].bits, h.objs[i].set)

\* copy(), as a new object over self._si_set.copy(), a new set.
copy_obj(h, i) ==
    LET h1 == NewSet(h, h.sets[h.objs[i].set])
    IN init_obj(h1, h.objs[i].bits, Len(h1.sets))

\* _union_with_si(si) on object i: the heap it leaves, and the object it
\* returns (0 when it returns an interval).
union_with_si_obj(h, i, si) ==
    LET h1 == copy_obj(h, i)
        dsis == Len(h1.objs)
        sid == h1.objs[dsis].set
        upd == _update_bounds([View(h1, dsis) EXCEPT !.elems = @ \cup {si}], si)
        h2 == [h1 EXCEPT !.sets[sid] = @ \cup {si},
                         !.objs[dsis].lb = upd.lb,
                         !.objs[dsis].ub = upd.ub]
    IN IF \E si_ \in h1.sets[sid] : is_true(PyEq(si_, si))
       THEN [heap |-> h1, obj |-> dsis]
       ELSE [heap |-> h2, obj |-> IF IsDSIS(normalize(View(h2, dsis))) THEN dsis ELSE 0]

\* The object a method returns when it builds its result over a fresh set:
\* the heap with the result r allocated, if r is a DSIS.
Fresh(h, r) ==
    IF IsDSIS(r)
    THEN LET h1 == NewSet(h, r.elems) IN init_obj(h1, r.bits, Len(h1.sets))
    ELSE h

\* The heap the caller starts with: {3, 5} and {5, 9}.
Heap0 ==
    Fresh(Fresh([objs |-> <<>>, sets |-> <<>>], Set35), Set59)

\* What every object of the heap holds.
Snapshot(h) == [i \in 1 .. Len(h.objs) |-> View(h, i)]

Init ==
    /\ \E h \in Held : self = h[1] /\ other = h[2]
    /\ op = "__init__"
    /\ recv = self
    /\ arg = NoArg
    /\ ret = self
    /\ hist = "unions"
    /\ steps = 0
    /\ heap = Heap0
    /\ snap = Snapshot(Heap0)
    /\ cop = "__init__"
    /\ calls = 0

\* A call of method `f` with operand `o` that returned (or raised) `r`.
Returned(f, o, r) ==
    /\ steps < MaxSteps
    /\ op' = f
    /\ recv' = self
    /\ arg' = o
    /\ ret' = r
    /\ self' = IF IsDSIS(r) THEN r ELSE self
    /\ hist' = IF f = "union" /\ hist = "unions" THEN "unions" ELSE "other"
    /\ steps' = steps + 1
    /\ UNCHANGED <<other, heapVars>>

And == \E o \in Operands : Returned("__and__", o, apply_on_each_si("__and__", self, o))

Or == \E o \in Operands : Returned("__or__", o, apply_on_each_si("__or__", self, o))

Xor == \E o \in Operands : Returned("__xor__", o, apply_on_each_si("__xor__", self, o))

LShift ==
    \E o \in Operands : Returned("__lshift__", o, apply_on_each_si("__lshift__", self, o))

RShift ==
    \E o \in Operands : Returned("__rshift__", o, apply_on_each_si("__rshift__", self, o))

Add == \E o \in Operands : Returned("__add__", o, apply_on_each_si("__add__", self, o))

Sub == \E o \in Operands : Returned("__sub__", o, apply_on_each_si("__sub__", self, o))

\* The widest element of a value.
RECURSIVE ElemBits(_)
ElemBits(v) ==
    IF v.kind = "dsis" THEN Max({0} \cup {ElemBits(e) : e \in v.elems}) ELSE v.bits

\* The caller concatenates up to 16 bits.
Concat ==
    \E o \in Operands :
        /\ ElemBits(self) + ElemBits(o) <= 16
        /\ Returned("concat", o, apply_on_each_si("concat", self, o))

Widen == \E o \in Operands : Returned("widen", o, widen(self, o))

Neg == Returned("__neg__", NoArg, __neg__(self))

Extract ==
    \E hl \in ExtractArgs :
        Returned("extract", BitsArg(hl[1], hl[2]), extract(self, hl[1], hl[2]))

Union == \E o \in Operands : Returned("union", o, union(self, o))

Intersection == \E o \in Operands : Returned("intersection", o, intersection(self, o))

SignExtend == Returned("sign_extend", PyInt(16), sign_extend(self, PyInt(16)))

ZeroExtend == Returned("zero_extend", PyInt(16), zero_extend(self, PyInt(16)))

\* self._update_bounds(val): it changes the receiver in place and returns None.
UpdateBounds ==
    \E o \in Operands :
        LET r == _update_bounds(self, o)
        IN /\ steps < MaxSteps
           /\ op' = "_update_bounds"
           /\ recv' = self
           /\ arg' = o
           /\ ret' = IF r.kind = "error" THEN r ELSE NoArg
           /\ self' = IF r.kind = "error" THEN self ELSE r
           /\ hist' = "other"
           /\ steps' = steps + 1
           /\ UNCHANGED <<other, heapVars>>

Next ==
    \/ And
    \/ Or
    \/ Xor
    \/ LShift
    \/ RShift
    \/ Add
    \/ Sub
    \/ Concat
    \/ Widen
    \/ Neg
    \/ Extract
    \/ Union
    \/ Intersection
    \/ SignExtend
    \/ ZeroExtend
    \/ UpdateBounds

Spec == Init /\ [][Next]_vars

(***************************************************************************)
(* The caller of the objects: it calls a method on the first object or on  *)
(* the object it got last, and keeps every object it is given.             *)
(***************************************************************************)

\* The objects the caller calls methods on.
CowReceivers == {1, Len(heap.objs)}

\* The operands it passes: two intervals and the second object.
CowOperands == {Singleton(5), Range(1, 3), View(heap, 2)}

\* A call of method f that left the heap h: the objects new to the caller
\* are recorded as they are now.
Called(f, h) ==
    /\ calls < MaxSteps
    /\ cop' = f
    /\ heap' = h
    /\ snap' = [i \in 1 .. Len(h.objs) |->
                  IF i <= Len(heap.objs) THEN snap[i] ELSE View(h, i)]
    /\ calls' = calls + 1
    /\ UNCHANGED valueVars

CowLifted ==
    \E f \in LiftedBinary, i \in CowReceivers, o \in CowOperands :
        Called(f, Fresh(heap, Call(f, View(heap, i), o)))

CowNeg == \E i \in CowReceivers : Called("__neg__", Fresh(heap, __neg__(View(heap, i))))

CowExtract ==
    \E i \in CowReceivers, hl \in ExtractArgs :
        Called("extract", Fresh(heap, extract(View(heap, i), hl[1], hl[2])))

CowUnion ==
    \E i \in CowReceivers, o \in CowOperands :
        Called("union", union_with_si_obj(heap, i, o).heap)

CowIntersection ==
    \E i \in CowReceivers, o \in CowOperands :
        Called("intersection", Fresh(heap, intersection(View(heap, i), o)))

CowCopy == \E i \in CowReceivers : Called("copy", copy_obj(heap, i))

\* normalize returns self, an element of self, or what collapse returns;
\* collapse, the comparisons and eval return intervals, results and lists.
CowRead ==
    \E f \in {"normalize", "collapse", "__eq__", "__ne__", "__gt__", "__le__",
              "__lt__", "eval"} :
        Called(f, heap)

NextCow ==
    \/ CowLifted
    \/ CowNeg
    \/ CowExtract
    \/ CowUnion
    \/ CowIntersection
    \/ CowCopy
    \/ CowRead

InitCow ==
    /\ self = Set35
    /\ other = Set59
    /\ op = "__init__"
    /\ recv = self
    /\ arg = NoArg
    /\ ret = self
    /\ hist = "unions"
    /\ steps = 0
    /\ heap = Heap0
    /\ snap = Snapshot(Heap0)
    /\ cop = "__init__"
    /\ calls = 0

SpecCow == InitCow /\ [][NextCow]_vars

(***************************************************************************)
(* The caller of the reflected operators: it writes `o op self` with an    *)
(* interval or an integer on the left, for which Python calls the          *)
(* reflected method of the DSIS on the right.                              *)
(***************************************************************************)

\* The left operands it writes.
LeftOperands == {Singleton(5), Singleton(200), Range(1, 3), PyInt(16)}

RAnd == \E o \in LeftOperands : Returned("__rand__", o, __rand__(self, o))

ROr == \E o \in LeftOperands : Returned("__ror__", o, __ror__(self, o))

RXor == \E o \in LeftOperands : Returned("__rxor__", o, __rxor__(self, o))

RAdd == \E o \in LeftOperands : Returned("__radd__", o, __radd__(self, o))

RSub == \E o \in LeftOperands : Returned("__rsub__", o, __rsub__(self, o))

NextReflected ==
    \/ RAnd
    \/ ROr
    \/ RXor
    \/ RAdd
    \/ RSub

SpecReflected == Init /\ [][NextReflected]_vars

(***************************************************************************)
(* Concrete values                                                         *)
(***************************************************************************)

\* Whether the value holds the concrete value x: an interval by its bounds
\* and stride, a DSIS by its elements.
RECURSIVE Contains(_, _)
Contains(v, x) ==
    IF v.kind = "dsis" THEN \E e \in v.elems : Contains(e, x)
    ELSE v.kind = "si" /\ InSI(x, v)

\* The concrete values of a value.
RECURSIVE Gamma(_)
Gamma(v) ==
    IF v.kind = "dsis" THEN UNION {Gamma(e) : e \in v.elems}
    ELSE IF v.kind = "si" THEN GammaSI(v)
    ELSE {}

(***************************************************************************)
(* Properties of the set, by the number of the statement they settle       *)
(***************************************************************************)

\* C1: no value returned to the caller is a DSIS holding more than
\* MAX_NUMBER_OF_SI elements; a result set over the threshold is returned as
\* one collapsed interval.
C1_CollapseThreshold ==
    /\ IsDSIS(ret) => number_of_values(ret) <= MAX_NUMBER_OF_SI
    /\ number_of_values(self) <= MAX_NUMBER_OF_SI

\* C1 happens: an operator was lifted over two sets whose pairwise results
\* are more than MAX_NUMBER_OF_SI, and one interval came back.
C1_Witness ==
    /\ op = "__add__"
    /\ IsDSIS(arg)
    /\ Cardinality({Call(op, a, b) : <<a, b>> \in recv.elems \X arg.elems})
         > MAX_NUMBER_OF_SI
    /\ ret.kind = "si"

\* C2: a result set of exactly one element is returned as that bare element,
\* never as a DSIS wrapping it.
C2_SingletonDemotion == IsDSIS(ret) => number_of_values(ret) # 1

\* C3: every concrete value of the receiver or of the operand of a union is
\* held by the value returned, and {3, 5} united with {5, 9} is {3, 5, 9}.
C3_UnionSound ==
    (op = "union" /\ IsStridedInterval(arg)) =>
        /\ \A x \in Gamma(recv) \cup Gamma(arg) : Contains(ret, x)
        /\ (recv = Set35 /\ arg = Set59) =>
               ret = DSIS(8, {Singleton(3), Singleton(5), Singleton(9)})

\* C4: the value an intersection returns holds no concrete value that is not
\* both in the receiver and in the operand, and it is the empty interval of
\* the receiver's width when nothing is common.
C4_IntersectionSound ==
    (op = "intersection" /\ IsStridedInterval(arg)) =>
        /\ \A x \in Gamma(ret) : Contains(recv, x) /\ Contains(arg, x)
        /\ (Gamma(recv) \cap Gamma(arg) = {}) => ret = Empty(recv.bits)

\* The cached bounds of a DSIS are the least lower bound and the greatest
\* upper bound of its elements.
TightBounds(d) ==
    (d.lb # None /\ d.ub # None) =>
        /\ d.lb \in {e.lb : e \in d.elems}
        /\ d.ub \in {e.ub : e \in d.elems}
        /\ \A e \in d.elems : e.lb # None => d.lb <= e.lb
        /\ \A e \in d.elems : e.ub # None => d.ub >= e.ub

\* C5: in a DSIS reached by construction and unions alone, the cached bounds
\* are the least lower and the greatest upper bound of the elements in it.
C5_BoundMaintenance ==
    hist = "unions" => TightBounds(self) /\ (IsDSIS(ret) => TightBounds(ret))

\* C5 happens: a union put an element outside the bounds into the set.
C5_Witness ==
    /\ hist = "unions"
    /\ op = "union"
    /\ IsDSIS(ret)
    /\ ret.lb < recv.lb
    /\ ret.elems # recv.elems

\* Every element of the value has the value's bit-width.
WidthsAgree(v) == IsDSIS(v) => \A e \in v.elems : e.bits = v.bits

\* C6: given a receiver and an operand whose elements have their set's
\* bit-width, the DSIS an operation returns has the width of its elements.
C6_BitWidth == (WidthsAgree(recv) /\ WidthsAgree(arg)) => WidthsAgree(ret)

\* C8: a lifted binary operator, union or intersection given an operand that
\* is neither an interval nor a DSIS raises the unsupported-operand error
\* and leaves the receiver as it was; so does _update_bounds, leaving both
\* cached bounds as they were.
C8_UnsupportedOperand ==
    /\ (op \in LiftedBinary \cup {"union", "intersection"} /\ ~IsStridedInterval(arg))
         => (ret = Error /\ self = recv)
    /\ (op = "_update_bounds" /\ ~IsStridedInterval(arg))
         => (ret = Error /\ self.lb = recv.lb /\ self.ub = recv.ub)

\* C8 happens: a union was given an integer.
C8_Witness == op = "union" /\ arg = PyInt(16) /\ ret = Error

\* C9: sign_extend(n) and zero_extend(n) with an integer n return the
\* normalized set of the elements' extensions, and do not fail.
C9_Extension ==
    /\ op = "sign_extend" =>
         ret = normalize(DSIS(recv.bits,
                              {SISignExtend(AsSI(e), arg.lb) : e \in recv.elems}))
    /\ op = "zero_extend" =>
         ret = normalize(DSIS(recv.bits,
                              {SIZeroExtend(AsSI(e), arg.lb) : e \in recv.elems}))

\* C10: when the union with a single interval x is still a DSIS, the union
\* of that with x again has the same elements and the same bounds.
C10_UnionDedup ==
    (op = "union" /\ arg.kind = "si" /\ IsDSIS(ret)) =>
        LET again == union(ret, arg)
        IN /\ IsDSIS(again)
           /\ again.elems = ret.elems
           /\ again.lb = ret.lb
           /\ again.ub = ret.ub

\* C10 happens: the interval united is only maybe equal to itself, and it
\* lies outside the bounds the receiver had.
C10_Witness ==
    /\ op = "union"
    /\ arg.kind = "si"
    /\ ~is_true(SIEq(arg, arg))
    /\ IsDSIS(ret)
    /\ arg \in ret.elems
    /\ arg.lb < recv.lb

\* C7: no operation changes the element set, the bit-width or the cached
\* bounds of a DSIS the caller holds: every object is what it was when the
\* caller got it.
C7_CopyOnWrite == \A i \in 1 .. Len(heap.objs) : View(heap, i) = snap[i]

\* C7 happens: a union on the first object returned an object with one more
\* element.
C7_Witness ==
    /\ cop = "union"
    /\ Len(heap.objs) > 2
    /\ \E si \in CowOperands :
         View(heap, Len(heap.objs)).elems = View(heap, 1).elems \cup {si}
    /\ View(heap, Len(heap.objs)).elems # View(heap, 1).elems

\* C11: b - S, for a DSIS S and an interval b of its bit-width, returns the
\* normalized set of b - a for the elements a of S, the operands in the order
\* written.
C11_ReflectedSub ==
    (op = "__rsub__" /\ arg.kind = "si" /\ arg.bits = recv.bits) =>
        ret = normalize(DSIS(recv.bits, {Call("__sub__", arg, a) : a \in recv.elems}))
====
